---- MODULE Spec2Model ----
(***************************************************************************)
(* A model of porg's filesystem photo repository                           *)
(* (src/src/infrastructure/repositories/filesystem_photo_repository.py).   *)
(*                                                                         *)
(* A file name is the sequence of its dot-separated segments:              *)
(* "shot.dng.xmp" is <<"shot", "dng", "xmp">>.  Segments are non-empty and *)
(* no segment of a file in a directory of the model is a prefix of another *)
(* one, so that Python's substring / suffix tests on the name are tests on *)
(* whole segments.                                                         *)
(* A path is [dir, name]; the directories are the caller's "src" and the   *)
(* repository's base directory "base".                                     *)
(***************************************************************************)
EXTENDS Integers, Sequences, FiniteSets, TLC

VARIABLES
    files,   \* the base directory: file name -> content
    index,   \* the .metadata directory: photo id -> record (sequence of [role, path])
    last,    \* the last repository call and what it returned
    steps,   \* number of repository calls made so far
    nfresh,  \* number of ids drawn from uuid.uuid4() so far
    kname,   \* Group-Key Extractor harness: the file name given
    kout     \* Group-Key Extractor harness: the key returned (or NoKey)

vars == <<files, index, last, steps, nfresh, kname, kout>>

----------------------------------------------------------------------------
(* Extension tables, in the order of the class attributes.                 *)

RAW_FORMATS == <<"raw", "raf", "cr2", "cr3", "nef", "arw", "dng", "orf", "rw2">>
JPEG_FORMATS == <<"jpg", "jpeg">>
LIVE_PHOTO_FORMATS == <<"mov", "mp4">>
SIDECAR_FORMATS == <<"xmp", "xml", "plist", "json">>
SUPPORTED_FORMATS == RAW_FORMATS \o JPEG_FORMATS \o LIVE_PHOTO_FORMATS \o SIDECAR_FORMATS

Range(s) == {s[i] : i \in 1..Len(s)}

\* str.lower() on one segment (the upper-case segments the model uses)
Lower(s) ==
    CASE s = "CR2" -> "cr2"
      [] s = "DNG" -> "dng"
      [] s = "JPG" -> "jpg"
      [] s = "MOV" -> "mov"
      [] s = "XMP" -> "xmp"
      [] s = "LIVE" -> "live"
      [] OTHER -> s

\* os.path.splitext(name)[0]: everything before the last dot
SplitRoot(name) == IF Len(name) >= 2 THEN SubSeq(name, 1, Len(name) - 1) ELSE name

\* os.path.splitext(name)[1] without its dot; "" when the name has no dot
SplitExt(name) == IF Len(name) >= 2 THEN name[Len(name)] ELSE ""

\* re.sub(r'\.live$', '', s): the pattern is case-sensitive and needs the dot
StripLive(s) ==
    IF Len(s) >= 2 /\ s[Len(s)] = "live" THEN SubSeq(s, 1, Len(s) - 1) ELSE s

\* re.sub(r'\.(xmp|xml|plist|json)$', '', s)
StripSidecar(s) ==
    IF Len(s) >= 2 /\ s[Len(s)] \in {"xmp", "xml", "plist", "json"}
    THEN SubSeq(s, 1, Len(s) - 1) ELSE s

\* _get_file_group_key: splitext first, then the two substitutions
GetFileGroupKey(filename) == StripSidecar(StripLive(SplitRoot(filename)))

----------------------------------------------------------------------------
(* Paths, directories and the identifiers of the model.                    *)

Path(d, n) == [dir |-> d, name |-> n]

\* the empty string a path-valued result has when there is no file
NoPath == [dir |-> "", name |-> <<>>]

\* ids the caller passes to save (photo.id), and the ids uuid.uuid4() returns
\* in list_photos, in the order in which they are drawn
SaveIds == {"id1"}
\* a uuid4 that returns an id the caller already uses
FreshPoolReused == <<"id1", "f1", "f2", "f3", "f4", "f5">>

FreshPool == <<"f1", "f2", "f3", "f4", "f5", "f6">>
MaxFresh == 2
FreshIds == {FreshPool[i] : i \in 1..MaxFresh}
AllIds == SaveIds \cup FreshIds

\* the caller's directory: it is only read (file name -> content)
SrcNames ==
    {<<"b", "cr2">>, <<"b", "jpg">>, <<"b", "xmp">>, <<"b", "cr2", "xmp">>,
     <<"n", "txt">>,
     <<"c", "cr2", "dng">>, <<"c", "cr2", "xmp">>,
     <<"d", "cr2", "cr2">>, <<"d", "cr2", "xmp">>,
     <<"e", "jpg", "jpeg">>, <<"e", "jpg", "xmp">>}
SrcFiles == [n \in SrcNames |-> n]

\* the paths the caller may hand to save: a master with raw and sidecar
\* siblings, a compound sidecar, a file of an unrecognised type, and a path
\* that does not exist
Seeds ==
    {Path("src", <<"b", "jpg">>), Path("src", <<"b", "cr2", "xmp">>),
     Path("src", <<"n", "txt">>), Path("src", <<"zz", "jpg">>)}

\* new base names given to rename_photo
NewNames == {"n1"}

\* what the base directory may hold when the repository is constructed
\* (os.makedirs(..., exist_ok=True) keeps what is there)
InitialDirs == {<<>>, [n \in {<<"n1", "jpg">>} |-> n]}

Names(fs, d) == IF d = "src" THEN SrcNames ELSE DOMAIN fs

\* os.path.exists / os.path.isfile
Exists(fs, p) == p.name \in Names(fs, p.dir)

Content(fs, p) == IF p.dir = "src" THEN SrcFiles[p.name] ELSE fs[p.name]

\* the functions f restricted to the domain without the names in S
Without(f, S) == [n \in DOMAIN f \ S |-> f[n]]

\* f with name n (re)bound to content c
With(f, n, c) == [m \in DOMAIN f \cup {n} |-> IF m = n THEN c ELSE f[m]]

\* all enumerations without repetition of the finite set S
Perms(S) ==
    {s \in [1..Cardinality(S) -> S] : \A i, j \in 1..Cardinality(S) : i # j => s[i] # s[j]}

----------------------------------------------------------------------------
(* Role Classifier and Group Scanner.                                      *)

IsSupported(name) == Lower(SplitExt(name)) \in Range(SUPPORTED_FORMATS)

\* name.endswith(f"{ext}.xmp") for some ext of the tuple (case-sensitive)
EndsWithExtXmp(name, formats) ==
    /\ Len(name) >= 3
    /\ name[Len(name)] = "xmp"
    /\ name[Len(name) - 1] \in Range(formats)

\* f"{ext}.xmp" in name.lower(), for the extension ext (without its dot)
HasExtXmp(name, ext) ==
    \E i \in 2..(Len(name) - 1) : Lower(name[i]) = ext /\ Lower(name[i + 1]) = "xmp"

\* the role _find_related_files gives a supported file (lines 86-105)
ScanRole(name) ==
    LET ext == Lower(SplitExt(name)) IN
    IF ext \in Range(RAW_FORMATS) THEN "raw"
    ELSE IF ext \in Range(JPEG_FORMATS) THEN "jpeg"
    ELSE IF ext \in Range(LIVE_PHOTO_FORMATS) THEN "live"
    ELSE IF EndsWithExtXmp(name, RAW_FORMATS) THEN "raw_sidecar"
    ELSE IF EndsWithExtXmp(name, JPEG_FORMATS) THEN "jpeg_sidecar"
    ELSE "sidecar"

\* the files of the seed's directory that _find_related_files keeps
Matched(fs, seed) ==
    {f \in Names(fs, seed.dir) :
        GetFileGroupKey(f) = GetFileGroupKey(seed.name) /\ IsSupported(f)}

\* _find_related_files: every dict it can return, as the sequence of its
\* items.  os.listdir gives the files in arbitrary order: a role sits where
\* its first file was seen and holds the file seen last, so every order of
\* the roles and every choice of one file per role can come out.
FindRelatedFiles(fs, seed) ==
    LET m == Matched(fs, seed)
        roles == {ScanRole(f) : f \in m}
        picks == {c \in [roles -> m] : \A r \in roles : ScanRole(c[r]) = r}
    IN  {[i \in 1..Cardinality(roles) |->
             [role |-> o[i], path |-> Path(seed.dir, c[o[i]])]] :
            o \in Perms(roles), c \in picks}

\* dict lookups on a sequence of items
HasRole(items, r) == \E i \in 1..Len(items) : items[i].role = r
PathOf(items, r) == items[CHOOSE i \in 1..Len(items) : items[i].role = r].path
RolesOf(items) == {items[i].role : i \in 1..Len(items)}
PathsOf(items) == {items[i].path : i \in 1..Len(items)}

\* a preference that puts the raw master first
GetPrimaryRawFirst(items) ==
    IF HasRole(items, "raw") THEN PathOf(items, "raw")
    ELSE IF HasRole(items, "jpeg") THEN PathOf(items, "jpeg")
    ELSE IF HasRole(items, "live") THEN PathOf(items, "live")
    ELSE NoPath

\* _get_primary_file_path
GetPrimaryFilePath(items) ==
    IF HasRole(items, "jpeg") THEN PathOf(items, "jpeg")
    ELSE IF HasRole(items, "raw") THEN PathOf(items, "raw")
    ELSE IF HasRole(items, "live") THEN PathOf(items, "live")
    ELSE NoPath

----------------------------------------------------------------------------
(* Index Store: one .meta file per id.                                     *)

(* A .meta file is the sequence of its lines.  A line is held as           *)
(* [role, path]: the text before its first colon and the text after it;    *)
(* role is "" for a line without colon.  The two segments below stand for  *)
(* the names that do not survive the format: one holds a line break, one   *)
(* ends with a blank.                                                      *)

HasLineBreak(s) == s = "a\nb"
BeforeBreak(s) == IF s = "a\nb" THEN "a" ELSE s
AfterBreak(s) == IF s = "a\nb" THEN "b" ELSE ""

\* the end of str.strip() on one segment
RStrip(s) == IF s = "x " THEN "x" ELSE s

\* the lines f.write(f"{file_type}:{file_path}\n") adds to the file: a
\* line break inside the path ends the line early
WriteItem(item) ==
    LET n == item.path.name
        ks == {k \in 1..Len(n) : HasLineBreak(n[k])}
    IN  IF ks = {} THEN <<item>>
        ELSE LET k == CHOOSE i \in ks : \A j \in ks : i <= j IN
             <<[role |-> item.role,
                path |-> Path(item.path.dir, SubSeq(n, 1, k - 1) \o <<BeforeBreak(n[k])>>)],
               [role |-> "",
                path |-> Path("", <<AfterBreak(n[k])>> \o SubSeq(n, k + 1, Len(n)))]>>

RECURSIVE WriteItems(_, _)
WriteItems(items, i) ==
    IF i > Len(items) THEN <<>> ELSE WriteItem(items[i]) \o WriteItems(items, i + 1)

\* the text the loop of _save_related_files_metadata writes
WriteLines(items) ==
    IF \A i \in 1..Len(items) :
          \A k \in 1..Len(items[i].path.name) : ~HasLineBreak(items[i].path.name[k])
    THEN items
    ELSE WriteItems(items, 1)

\* line.strip().split(':', 1)[1]: the blanks at the end of the line go
StripPath(p) ==
    IF p.name = <<>> \/ RStrip(p.name[Len(p.name)]) = p.name[Len(p.name)] THEN p
    ELSE Path(p.dir, SubSeq(p.name, 1, Len(p.name) - 1) \o <<RStrip(p.name[Len(p.name)])>>)

\* the loop over the lines of the file (lines 408-411): a line without
\* colon is passed over.  No two lines of a file the repository wrote start
\* with the same role.
ReadLines(lines) ==
    IF \A i \in 1..Len(lines) :
          lines[i].role # "" /\ StripPath(lines[i].path) = lines[i].path
    THEN lines
    ELSE LET good == SelectSeq(lines, LAMBDA l : l.role # "") IN
         [i \in 1..Len(good) |-> [role |-> good[i].role, path |-> StripPath(good[i].path)]]

\* _save_related_files_metadata: the file is rewritten, one line per item
SaveRelatedFilesMetadata(idx, id, items) ==
    [i \in DOMAIN idx \cup {id} |-> IF i = id THEN WriteLines(items) ELSE idx[i]]

\* _load_related_files_metadata: {} when there is no file
LoadRelatedFilesMetadata(idx, id) ==
    IF id \in DOMAIN idx THEN ReadLines(idx[id]) ELSE <<>>

----------------------------------------------------------------------------
(* Repository operations.                                                  *)

\* a behaviour makes at most MaxSteps repository calls
MaxSteps == 4

\* the first raw extension ext with f"{ext}.xmp" in name.lower(), else dflt
\* (the for ... break loops of save and rename_photo)
RECURSIVE FirstRawExtXmp(_, _, _)
FirstRawExtXmp(name, i, dflt) ==
    IF i > Len(RAW_FORMATS) THEN dflt
    ELSE IF HasExtXmp(name, RAW_FORMATS[i]) THEN RAW_FORMATS[i]
    ELSE FirstRawExtXmp(name, i + 1, dflt)

\* _generate_safe_filename: the id followed by the lower-cased extension
GenerateSafeFilename(original, id) ==
    IF SplitExt(original) = "" THEN <<id>> ELSE <<id, Lower(SplitExt(original))>>

\* the name save gives the copy of an item (lines 342-359)
SafeFilename(item, id) ==
    IF item.role = "raw_sidecar" THEN <<id, FirstRawExtXmp(item.path.name, 1, "raw"), "xmp">>
    ELSE IF item.role = "jpeg_sidecar" THEN <<id, "jpg", "xmp">>
    ELSE IF item.role = "sidecar" THEN <<id, "xmp">>
    ELSE GenerateSafeFilename(item.path.name, id)

\* shutil.copy2(src, dst) raises (SameFileError, an OSError) when both are
\* the same file, and when the operating system makes this copy fail
CopyFails(src, dst, injected) == injected \/ src = dst

\* the copy loop of save (lines 339-368) from item i on.  failAt is the item
\* whose copy the operating system makes fail (0: none).  err is the role
\* named by the IOError raised ("" when the loop ends normally) and at the
\* item whose copy failed.  A copy that fails leaves no file behind.
RECURSIVE CopyRelated(_, _, _, _, _, _)
CopyRelated(fs, related, i, saved, id, failAt) ==
    IF i > Len(related) THEN [files |-> fs, saved |-> saved, err |-> "", at |-> 0]
    ELSE IF ~Exists(fs, related[i].path)
    THEN CopyRelated(fs, related, i + 1, saved, id, failAt)
    ELSE LET src == related[i].path
             dst == Path("base", SafeFilename(related[i], id))
         IN  IF CopyFails(src, dst, i = failAt)
             THEN [files |-> fs, saved |-> saved, err |-> related[i].role, at |-> i]
             ELSE CopyRelated(With(fs, dst.name, Content(fs, src)), related, i + 1,
                              Append(saved, [role |-> related[i].role, path |-> dst]),
                              id, failAt)

\* the related files save works on (lines 327-333)
SaveRelated(fs, seed) ==
    {IF r = <<>> THEN <<[role |-> "primary", path |-> seed]>> ELSE r :
        r \in FindRelatedFiles(fs, seed)}

\* an index that is written with whatever was copied, error or not
SaveIndexAlways(idx, id, out) ==
    IF out.saved # <<>> THEN SaveRelatedFilesMetadata(idx, id, out.saved) ELSE idx

\* the index after save: the record is written once the loop has ended
\* without an IOError, when something was copied (lines 371-375)
SaveIndex(idx, id, out) ==
    IF out.err = "" /\ out.saved # <<>>
    THEN SaveRelatedFilesMetadata(idx, id, out.saved) ELSE idx

\* save(photo) with photo.file_path = seed and photo.id = id
Save(seed, id) ==
    /\ steps < MaxSteps
    /\ \E related \in SaveRelated(files, seed) :
       \E failAt \in 0..Len(related) :
          LET out == CopyRelated(files, related, 1, <<>>, id, failAt) IN
          /\ files' = out.files
          /\ index' = SaveIndex(index, id, out)
          /\ last' = [op |-> "save", id |-> id, seed |-> seed,
                      related |-> related, copied |-> out.saved, at |-> out.at,
                      ret |-> IF out.err = "" THEN "ok" ELSE "IOError",
                      role |-> out.err,
                      path |-> IF out.err = "" /\ out.saved # <<>>
                               THEN GetPrimaryFilePath(out.saved) ELSE seed]
    /\ steps' = steps + 1
    /\ UNCHANGED <<nfresh, kname, kout>>

\* the result "not found" (None)
None == [id |-> "", path |-> NoPath]

\* str(photo_id) in filename
NameHasId(name, id) == \E i \in 1..Len(name) : name[i] = id

\* the Photo find_by_id builds from the related files (lines 437-463):
\* os.path.getctime raises when the primary file is missing
PhotoOf(fs, id, related) ==
    IF related = <<>> THEN None
    ELSE LET p == GetPrimaryFilePath(related) IN
         IF p = NoPath \/ ~Exists(fs, p) THEN None ELSE [id |-> id, path |-> p]

\* the related files find_by_id can end with (lines 426-434): the record,
\* or the scan from the first file of the listing that carries the id
FindByIdRelated(fs, idx, id) ==
    LET rec == LoadRelatedFilesMetadata(idx, id)
        hits == {f \in DOMAIN fs : NameHasId(f, id) /\ IsSupported(f)}
    IN  IF rec # <<>> THEN {rec}
        ELSE IF hits = {} THEN {<<>>}
        ELSE UNION {FindRelatedFiles(fs, Path("base", f)) : f \in hits}

\* every result find_by_id(id) can return in the state (fs, idx)
FindByIdResults(fs, idx, id) == {PhotoOf(fs, id, r) : r \in FindByIdRelated(fs, idx, id)}

\* a lookup that stores the related files it found as the id's record
FindByIdCaches(idx, id, related) ==
    IF related # <<>> THEN SaveRelatedFilesMetadata(idx, id, related) ELSE idx

\* the .metadata directory after find_by_id: the method only reads
\* (lines 426-463)
FindByIdIndex(idx, id, related) == idx

FindById(id) ==
    /\ steps < MaxSteps
    /\ \E related \in FindByIdRelated(files, index, id) :
          /\ index' = FindByIdIndex(index, id, related)
          /\ last' = [op |-> "find", id |-> id, photo |-> PhotoOf(files, id, related)]
    /\ steps' = steps + 1
    /\ UNCHANGED <<files, nfresh, kname, kout>>

\* the tags given to find_by_tag
Tags == {"t1"}

\* find_by_tag(tag): the empty list, whatever the tag (line 477)
FindByTag(tag) ==
    /\ steps < MaxSteps
    /\ last' = [op |-> "tag", tag |-> tag, ret |-> <<>>]
    /\ steps' = steps + 1
    /\ UNCHANGED <<files, index, nfresh, kname, kout>>

\* a delete loop that an os.remove failure ends
RemovedUntilFailure(fs, related, failRm) ==
    IF failRm = {} THEN {p.name : p \in {q \in PathsOf(related) : Exists(fs, q)}} ELSE {}

\* the base files the delete loop removes (lines 498-503): those that exist
\* and whose os.remove does not fail
Removed(fs, related, failRm) ==
    {p.name : p \in {q \in PathsOf(related) : Exists(fs, q) /\ q \notin failRm}}

\* a flag that counts a file that is not there as a failed removal
DeleteSuccessAllPresent(fs, related, failRm, failMeta) ==
    /\ \A p \in PathsOf(related) : Exists(fs, p) /\ p \notin failRm
    /\ ~failMeta

\* the flag delete returns (lines 495-513)
DeleteSuccess(fs, related, failRm, failMeta) ==
    /\ \A p \in PathsOf(related) : ~(Exists(fs, p) /\ p \in failRm)
    /\ ~failMeta

\* the .metadata directory after delete's os.remove of the record
DeleteIndex(idx, id, failMeta) ==
    IF failMeta \/ id \notin DOMAIN idx THEN idx ELSE [i \in DOMAIN idx \ {id} |-> idx[i]]

\* a lookup that falls back to the files carrying the id, as find_by_id does
DeleteRelatedOrSweep(fs, idx, id) ==
    IF LoadRelatedFilesMetadata(idx, id) # <<>> THEN LoadRelatedFilesMetadata(idx, id)
    ELSE CHOOSE r \in FindByIdRelated(fs, idx, id) : TRUE

\* the related files delete works on (line 490): the record only
DeleteRelated(fs, idx, id) == LoadRelatedFilesMetadata(idx, id)

\* delete(id); failRm are the files whose os.remove the operating system
\* makes fail, failMeta says whether the removal of the record fails
Delete(id) ==
    /\ steps < MaxSteps
    /\ LET related == DeleteRelated(files, index, id) IN
       IF related = <<>>
       THEN /\ last' = [op |-> "delete", id |-> id, had |-> <<>>, missing |-> {},
                        failed |-> {}, failMeta |-> FALSE, ret |-> FALSE]
            /\ UNCHANGED <<files, index>>
       ELSE \E failRm \in SUBSET {p \in PathsOf(related) : Exists(files, p)} :
            \E failMeta \in BOOLEAN :
               /\ files' = Without(files, Removed(files, related, failRm))
               /\ index' = DeleteIndex(index, id, failMeta)
               /\ last' = [op |-> "delete", id |-> id, had |-> related,
                           missing |-> {p \in PathsOf(related) : ~Exists(files, p)},
                           failed |-> failRm, failMeta |-> failMeta,
                           ret |-> DeleteSuccess(files, related, failRm, failMeta)]
    /\ steps' = steps + 1
    /\ UNCHANGED <<nfresh, kname, kout>>

\* the path rename_photo gives an item's file (lines 536-562); the
\* extension of the old path is kept as it is written
NewPath(item, newName) ==
    LET old == item.path.name
        ext == IF SplitExt(old) = "" THEN <<>> ELSE <<SplitExt(old)>>
    IN  Path(item.path.dir,
             IF item.role = "raw_sidecar" THEN <<newName, FirstRawExtXmp(old, 1, "raw"), "xmp">>
             ELSE IF item.role = "jpeg_sidecar" THEN <<newName, "jpg", "xmp">>
             ELSE IF item.role = "sidecar" THEN <<newName, "xmp">>
             ELSE IF item.role = "live" THEN <<newName, "live">> \o ext
             ELSE <<newName>> \o ext)

\* os.rename(a, b) that succeeds: b is replaced when it exists (POSIX)
Move(fs, a, b) == IF a = b THEN fs ELSE With(Without(fs, {a}), b, fs[a])

\* the rename loop (lines 534-566) from item i on, up to the failing
\* os.rename: failAt is the item whose os.rename fails (0: none)
RECURSIVE RenameRelated(_, _, _, _, _, _)
RenameRelated(fs, related, i, newPaths, newName, failAt) ==
    IF i > Len(related) THEN [files |-> fs, newPaths |-> newPaths, err |-> ""]
    ELSE IF ~Exists(fs, related[i].path)
    THEN RenameRelated(fs, related, i + 1, newPaths, newName, failAt)
    ELSE IF i = failAt
    THEN [files |-> fs, newPaths |-> newPaths, err |-> related[i].role]
    ELSE LET new == NewPath(related[i], newName) IN
         RenameRelated(Move(fs, related[i].path.name, new.name), related, i + 1,
                       Append(newPaths, [role |-> related[i].role, path |-> new]),
                       newName, failAt)

\* a compensation loop that gives up: nothing is moved back
RevertNothing(fs, related, newPaths, j, stuck) == fs

\* the compensation loop (lines 570-575) from renamed item j on: stuck are
\* the roles whose os.rename back fails; a failure is passed over
RECURSIVE RevertRenamed(_, _, _, _, _)
RevertRenamed(fs, related, newPaths, j, stuck) ==
    IF j > Len(newPaths) THEN fs
    ELSE LET newP == newPaths[j].path
             originalP == PathOf(related, newPaths[j].role)
         IN  IF newPaths[j].role \in stuck \/ ~Exists(fs, newP)
             THEN RevertRenamed(fs, related, newPaths, j + 1, stuck)
             ELSE RevertRenamed(Move(fs, newP.name, originalP.name), related, newPaths,
                                j + 1, stuck)

\* the roles a failed rename_photo names to its caller (lines 567-576): the
\* message printed names the role whose os.rename failed, the value returned
\* is None, and an os.rename of the compensation that fails is passed over
RenameReported(err, stuck) == IF err = "" THEN {} ELSE {err}

\* the record rename_photo writes after the loop (line 579)
RenameIndex(idx, id, newPaths) == SaveRelatedFilesMetadata(idx, id, newPaths)

\* rename_photo(id, newName)
RenamePhoto(id, newName) ==
    /\ steps < MaxSteps
    /\ LET related == LoadRelatedFilesMetadata(index, id) IN
       IF related = <<>>
       THEN /\ last' = [op |-> "rename", id |-> id, newName |-> newName, had |-> <<>>,
                        renamed |-> <<>>, role |-> "", stuck |-> {},
                        reported |-> {}, photo |-> None]
            /\ UNCHANGED <<files, index>>
       ELSE \E failAt \in 0..Len(related) :
            LET out == RenameRelated(files, related, 1, <<>>, newName, failAt) IN
            IF out.err # ""
            THEN \E stuck \in SUBSET RolesOf(out.newPaths) :
                    /\ files' = RevertRenamed(out.files, related, out.newPaths, 1, stuck)
                    /\ index' = index
                    /\ last' = [op |-> "rename", id |-> id, newName |-> newName,
                                had |-> related, renamed |-> out.newPaths,
                                role |-> out.err, stuck |-> stuck,
                                reported |-> RenameReported(out.err, stuck),
                                photo |-> None]
            ELSE /\ files' = out.files
                 /\ index' = RenameIndex(index, id, out.newPaths)
                 /\ \E photo \in FindByIdResults(files', index', id) :
                       last' = [op |-> "rename", id |-> id, newName |-> newName,
                                had |-> related, renamed |-> out.newPaths,
                                role |-> "", stuck |-> {},
                                reported |-> RenameReported("", {}), photo |-> photo]
    /\ steps' = steps + 1
    /\ UNCHANGED <<nfresh, kname, kout>>

\* the ids of the records list_photos finds a photo for (lines 595-606),
\* given the result found of find_by_id for every record
ProcessedIds(found) == {id \in DOMAIN found : found[id] # None}

\* uuid.UUID(os.path.splitext(filename)[0]) in processed_ids (lines 617-620):
\* only a name that is an id followed by one extension parses
AlreadyProcessed(name, processed) == Len(SplitRoot(name)) = 1 /\ name[1] \in processed

\* the files that open or join a group in the sweep (lines 611-640)
SweepPrimaries(fs, processed) ==
    {f \in DOMAIN fs :
        /\ IsSupported(f)
        /\ ~AlreadyProcessed(f, processed)
        /\ Lower(SplitExt(f)) \notin Range(SIDECAR_FORMATS)}

\* the role of a master in the sweep (lines 634-640)
SweepRole(name) ==
    LET ext == Lower(SplitExt(name)) IN
    IF ext \in Range(RAW_FORMATS) THEN "raw"
    ELSE IF ext \in Range(JPEG_FORMATS) THEN "jpeg"
    ELSE "live"

\* the role of a sidecar in the second pass (lines 653-663)
SweepSidecarRole(name, roles) ==
    IF "raw" \in roles /\ \E e \in Range(RAW_FORMATS) : HasExtXmp(name, e)
    THEN "raw_sidecar"
    ELSE IF "jpeg" \in roles /\ \E e \in Range(JPEG_FORMATS) : HasExtXmp(name, e)
    THEN "jpeg_sidecar"
    ELSE "sidecar"

\* every dict file_groups[key] can be after both passes: the masters in the
\* order they were seen, then the sidecars
SweepGroup(fs, processed, key) ==
    LET ms == {f \in SweepPrimaries(fs, processed) : GetFileGroupKey(f) = key}
        mroles == {SweepRole(f) : f \in ms}
        ss == {f \in DOMAIN fs : /\ Lower(SplitExt(f)) \in Range(SIDECAR_FORMATS)
                                 /\ GetFileGroupKey(f) = key}
        sroles == {SweepSidecarRole(f, mroles) : f \in ss}
        mpicks == {c \in [mroles -> ms] : \A r \in mroles : SweepRole(c[r]) = r}
        spicks == {c \in [sroles -> ss] :
                      \A r \in sroles : SweepSidecarRole(c[r], mroles) = r}
    IN  {[i \in 1..Cardinality(mroles) |->
             [role |-> mo[i], path |-> Path("base", mc[mo[i]])]]
         \o [i \in 1..Cardinality(sroles) |->
             [role |-> so[i], path |-> Path("base", sc[so[i]])]] :
            mo \in Perms(mroles), mc \in mpicks, so \in Perms(sroles), sc \in spicks}

\* the keys of file_groups
SweepKeys(fs, processed) == {GetFileGroupKey(f) : f \in SweepPrimaries(fs, processed)}

RECURSIVE SeqOfSet(_)
SeqOfSet(S) ==
    IF S = {} THEN <<>> ELSE LET x == CHOOSE y \in S : TRUE IN <<x>> \o SeqOfSet(S \ {x})

\* every list of groups the sweep can end with, one dict per key.  The
\* groups are taken in one fixed order: uuid4 ids are interchangeable, so
\* which group gets which fresh id makes no difference.
RECURSIVE SweepGroups(_, _, _, _)
SweepGroups(fs, processed, keys, i) ==
    IF i > Len(keys) THEN {<<>>}
    ELSE {<<g>> \o rest : g \in SweepGroup(fs, processed, keys[i]),
                          rest \in SweepGroups(fs, processed, keys, i + 1)}

\* the records list_photos saves for the groups (line 683), the k-th under
\* the k-th fresh id after the n already drawn
RECURSIVE SaveGroups(_, _, _, _)
SaveGroups(idx, groups, k, n) ==
    IF k > Len(groups) THEN idx
    ELSE SaveGroups(SaveRelatedFilesMetadata(idx, FreshPool[n + k], groups[k]),
                    groups, k + 1, n)

\* the file paths of the photos a call of list_photos returned (line 701)
ListedPaths(l) == {ph.path : ph \in l.known \cup l.new}

\* list_photos(); prev holds the paths the call just before returned when
\* that call was a list_photos too
ListPhotos ==
    /\ steps < MaxSteps
    /\ files' = files
    /\ \E found \in [DOMAIN index -> {None} \cup
                       UNION {FindByIdResults(files, index, id) : id \in DOMAIN index}] :
          /\ \A id \in DOMAIN index : found[id] \in FindByIdResults(files, index, id)
          /\ LET processed == ProcessedIds(found)
                 keys == SeqOfSet(SweepKeys(files, processed))
             IN  /\ nfresh + Len(keys) <= MaxFresh
                 /\ \E groups \in SweepGroups(files, processed, keys, 1) :
                       /\ index' = SaveGroups(index, groups, 1, nfresh)
                       /\ last' = [op |-> "list",
                                   prev |-> IF last.op = "list"
                                            THEN <<ListedPaths(last)>> ELSE <<>>,
                                   known |-> {found[id] : id \in processed},
                                   new |-> {[id |-> FreshPool[nfresh + k],
                                             path |-> GetPrimaryFilePath(groups[k])] :
                                               k \in 1..Len(groups)}]
                 /\ nfresh' = nfresh + Len(keys)
    /\ steps' = steps + 1
    /\ UNCHANGED <<kname, kout>>

Init ==
    /\ files \in InitialDirs
    /\ index = <<>>
    /\ last = [op |-> "none"]
    /\ steps = 0
    /\ nfresh = 0
    /\ kname = <<"shot">>
    /\ kout = <<>>

Next ==
    \/ \E seed \in Seeds, id \in SaveIds : Save(seed, id)
    \/ \E id \in AllIds : FindById(id)
    \/ \E tag \in Tags : FindByTag(tag)
    \/ \E id \in AllIds : Delete(id)
    \/ \E id \in AllIds, newName \in NewNames : RenamePhoto(id, newName)
    \/ ListPhotos

Spec == Init /\ [][Next]_vars

----------------------------------------------------------------------------
(* Harness of the Group-Key Extractor: a file name is drawn, the key is    *)
(* computed.                                                               *)

MaxKeySegs == 3

KeyBases == {"shot", "img1"}
KeySegs == {"cr2", "dng", "jpg", "jpeg", "xmp", "json", "live", "mov", "txt",
            "CR2", "XMP"}

KeyNames ==
    UNION {{<<b>> \o t : t \in [1..n -> KeySegs]} : b \in KeyBases, n \in 0..MaxKeySegs}

NoKey == <<>>

KeyInit ==
    /\ kname \in KeyNames
    /\ kout = NoKey
    /\ files = <<>> /\ index = <<>> /\ last = [op |-> "none"] /\ steps = 0 /\ nfresh = 0

KeyCompute ==
    /\ kout = NoKey
    /\ kout' = GetFileGroupKey(kname)
    /\ UNCHANGED <<files, index, last, steps, nfresh, kname>>

KeyNext == KeyCompute

SpecKey == KeyInit /\ [][KeyNext]_vars

\* the five names the Group-Key Extractor must map to one key
IsRawExt(s) == s \in Range(RAW_FORMATS)
IsJpegExt(s) == s \in Range(JPEG_FORMATS)

ClaimedForm(name) ==
    \/ Len(name) = 2 /\ (IsRawExt(name[2]) \/ IsJpegExt(name[2]))
    \/ Len(name) = 3 /\ (IsRawExt(name[2]) \/ IsJpegExt(name[2])) /\ name[3] = "xmp"
    \/ Len(name) = 3 /\ name[2] = "live" /\ name[3] = "mov"

----------------------------------------------------------------------------
(* Metadata Resolver.  In its harness the content of a file is what a      *)
(* parser reads from it: BadXmp for a sidecar xml.etree cannot parse,      *)
(* Unreadable for a master open() or exif.Image fails on, else the tags.   *)
(* A metadata dict is a function from its keys to their values.            *)

BadXmp == [kind |-> "bad"]
Unreadable == [kind |-> "unreadable"]

\* dict.update: the keys of d are (re)bound
Update(m, d) == [k \in DOMAIN m \cup DOMAIN d |-> IF k \in DOMAIN d THEN d[k] ELSE m[k]]

\* {k: v}, and {} when the tag is not there
Entry(present, k, v) == IF present THEN [x \in {k} |-> v] ELSE <<>>

\* bool(metadata.get(k)): a numeric zero and an empty string are false
Truthy(m, k) == k \in DOMAIN m /\ m[k] \notin {"", "0"}

\* _extract_metadata_from_xmp: {} when the file cannot be parsed; both
\* coordinates or none, none when their text does not parse
ExtractMetadataFromXmp(fs, path) ==
    IF ~Exists(fs, path) \/ Content(fs, path) = BadXmp THEN <<>>
    ELSE LET c == Content(fs, path) IN
         Update(Update(Update(Entry(c.model # "", "camera_model", c.model),
                              Entry(c.gps \notin {"none", "malformed"}, "latitude", c.gps)),
                       Entry(c.gps \notin {"none", "malformed"}, "longitude", c.gps)),
                Entry(c.date # "", "capture_date", c.date))

\* the sidecar loop of _extract_photo_metadata (lines 138-145) from the i-th
\* sidecar role on; done says that the method returns from inside the loop
SidecarTypes == <<"raw_sidecar", "jpeg_sidecar", "sidecar">>

RECURSIVE ExtractFromSidecars(_, _, _, _)
ExtractFromSidecars(fs, items, i, metadata) ==
    IF i > Len(SidecarTypes) THEN [metadata |-> metadata, done |-> FALSE]
    ELSE IF ~HasRole(items, SidecarTypes[i])
    THEN ExtractFromSidecars(fs, items, i + 1, metadata)
    ELSE LET sm == ExtractMetadataFromXmp(fs, PathOf(items, SidecarTypes[i]))
             m == IF sm # <<>> THEN Update(metadata, sm) ELSE metadata
         IN  IF sm # <<>> /\ {"camera_model", "latitude", "longitude"} \subseteq DOMAIN m
             THEN [metadata |-> m, done |-> TRUE]
             ELSE ExtractFromSidecars(fs, items, i + 1, m)

\* the body of the try block for a raw or jpeg master (lines 155-176): err
\* says that an exception of the except clause ended it.  The model is set
\* before the coordinates are read, and a master with coordinates but no
\* hemisphere reference raises AttributeError on img.gps_latitude_ref.
ExtractFromExif(fs, path, metadata) ==
    IF ~Exists(fs, path) \/ Content(fs, path) = Unreadable
    THEN [metadata |-> metadata, err |-> TRUE]
    ELSE LET c == Content(fs, path)
             m == Update(metadata, Entry(c.model # "", "camera_model", c.model))
         IN  IF c.gps = "none" THEN [metadata |-> m, err |-> FALSE]
             ELSE IF c.gps = "noref" THEN [metadata |-> m, err |-> TRUE]
             ELSE [metadata |-> Update(Update(m, Entry(TRUE, "latitude", c.gps)),
                                       Entry(TRUE, "longitude", c.gps)),
                   err |-> FALSE]

\* the loop over the image files (lines 148-184) from the i-th type on
FileTypes == <<"raw", "jpeg", "live">>

RECURSIVE ExtractFromImages(_, _, _, _)
ExtractFromImages(fs, items, i, metadata) ==
    IF i > Len(FileTypes) THEN metadata
    ELSE IF ~HasRole(items, FileTypes[i])
    THEN ExtractFromImages(fs, items, i + 1, metadata)
    ELSE LET out == IF FileTypes[i] \in {"raw", "jpeg"}
                    THEN ExtractFromExif(fs, PathOf(items, FileTypes[i]), metadata)
                    ELSE [metadata |-> metadata, err |-> FALSE]
         IN  IF /\ ~out.err
                /\ Truthy(out.metadata, "camera_model")
                /\ Truthy(out.metadata, "latitude")
                /\ Truthy(out.metadata, "longitude")
             THEN out.metadata
             ELSE ExtractFromImages(fs, items, i + 1, out.metadata)

\* _extract_photo_metadata(file_paths)
ExtractPhotoMetadata(fs, items) ==
    LET sc == ExtractFromSidecars(fs, items, 1, <<>>) IN
    IF sc.done THEN sc.metadata ELSE ExtractFromImages(fs, items, 1, sc.metadata)

\* Harness of the Metadata Resolver: the files of one group are drawn, each
\* role absent or with some content, and the group is resolved.  The value
\* of a tag is the role of the file that carries it, "0" is a coordinate of
\* zero degrees.
Absent == [kind |-> "absent"]

MetaName(role) ==
    CASE role = "raw_sidecar" -> <<"p", "cr2", "xmp">>
      [] role = "jpeg_sidecar" -> <<"p", "jpg", "xmp">>
      [] role = "sidecar" -> <<"p", "xmp">>
      [] role = "raw" -> <<"p", "cr2">>
      [] role = "jpeg" -> <<"p", "jpg">>
      [] OTHER -> <<"p", "mov">>

MetaRoles == <<"raw_sidecar", "jpeg_sidecar", "sidecar", "raw", "jpeg", "live">>

\* what a sidecar of the role may hold
XmpContents(role) ==
    {BadXmp, [model |-> "", gps |-> "none", date |-> role]}
        \cup [model : {"", role}, gps : {"none", "malformed", role}, date : {""}]

\* what a master of the role may hold
ExifContents(role) ==
    {Unreadable} \cup [model : {"", role}, gps : {"none", "noref", "0", role}]

MetaContents(role) ==
    IF role \in Range(SidecarTypes) THEN XmpContents(role)
    ELSE IF role \in {"raw", "jpeg"} THEN ExifContents(role)
    ELSE {[model |-> "", gps |-> "none"]}

\* the directory in which role MetaRoles[i] has the content c[i]
MetaDir(c) ==
    LET present == {i \in 1..Len(MetaRoles) : c[i] # Absent} IN
    [n \in {MetaName(MetaRoles[i]) : i \in present} |->
        c[CHOOSE i \in present : MetaName(MetaRoles[i]) = n]]

\* the file_paths of the group in the directory
MetaFilePaths(fs) ==
    SelectSeq([i \in 1..Len(MetaRoles) |->
                  [role |-> MetaRoles[i], path |-> Path("base", MetaName(MetaRoles[i]))]],
              LAMBDA it : Exists(fs, it.path))

MetaInit ==
    /\ \E a \in {Absent} \cup MetaContents("raw_sidecar"),
          b \in {Absent} \cup MetaContents("jpeg_sidecar"),
          c \in {Absent} \cup MetaContents("sidecar"),
          d \in {Absent} \cup MetaContents("raw"),
          e \in {Absent} \cup MetaContents("jpeg"),
          f \in {Absent} \cup MetaContents("live") :
             files = MetaDir(<<a, b, c, d, e, f>>)
    /\ index = <<>> /\ last = [op |-> "none"] /\ steps = 0 /\ nfresh = 0
    /\ kname = <<"shot">> /\ kout = <<>>

\* what find_by_id derives from the related files (lines 441-444): the
\* metadata and the primary file
MetaExtract ==
    /\ last.op = "none"
    /\ last' = [op |-> "extract", file_paths |-> MetaFilePaths(files),
                ret |-> ExtractPhotoMetadata(files, MetaFilePaths(files)),
                primary |-> GetPrimaryFilePath(MetaFilePaths(files))]
    /\ UNCHANGED <<files, index, steps, nfresh, kname, kout>>

MetaNext == MetaExtract

SpecMeta == MetaInit /\ [][MetaNext]_vars

----------------------------------------------------------------------------
(* Harness of the Index Store: a record is written over an index that may  *)
(* hold an earlier record of the id and a record of another id, then a     *)
(* record is read.                                                         *)

\* the longest RoleMap written
MaxRecordLen == 2

IndexIds == {"id1", "f1"}
IndexRoles == {"jpeg", "raw", "raw_sidecar"}

\* managed names as save gives them, a name rename_photo made from the new
\* name "a\nb", and a name without extension renamed to "x "
IndexNames == {<<"id1", "jpg">>, <<"id1", "cr2", "xmp">>, <<"a\nb", "jpg">>, <<"x ">>}

\* the dicts handed to _save_related_files_metadata: no role twice
RoleMaps ==
    UNION {{m \in [1..n -> [role : IndexRoles, path : {Path("base", x) : x \in IndexNames}]] :
               \A i, j \in 1..n : i # j => m[i].role # m[j].role} :
           n \in 1..MaxRecordLen}

\* the record an earlier save left for the id
EarlierRecord(id) ==
    <<[role |-> "jpeg", path |-> Path("base", <<id, "jpg">>)],
      [role |-> "raw", path |-> Path("base", <<id, "cr2">>)],
      [role |-> "sidecar", path |-> Path("base", <<id, "xmp">>)]>>

IndexInit ==
    /\ \E S \in SUBSET IndexIds : index = [i \in S |-> WriteLines(EarlierRecord(i))]
    /\ files = <<>> /\ last = [op |-> "none"] /\ steps = 0 /\ nfresh = 0
    /\ kname = <<"shot">> /\ kout = <<>>

\* _save_related_files_metadata(id, m)
IndexPut(id, m) ==
    /\ last.op = "none"
    /\ index' = SaveRelatedFilesMetadata(index, id, m)
    /\ last' = [op |-> "put", id |-> id, items |-> m, before |-> index]
    /\ UNCHANGED <<files, steps, nfresh, kname, kout>>

\* _load_related_files_metadata(id); put holds the write made just before
IndexGet(id) ==
    /\ last.op \in {"none", "put"}
    /\ last' = [op |-> "get", id |-> id, ret |-> LoadRelatedFilesMetadata(index, id),
                put |-> IF last.op = "put" THEN <<last>> ELSE <<>>]
    /\ UNCHANGED <<files, index, steps, nfresh, kname, kout>>

IndexNext ==
    \/ \E id \in IndexIds, m \in RoleMaps : IndexPut(id, m)
    \/ \E id \in IndexIds : IndexGet(id)

SpecIndex == IndexInit /\ [][IndexNext]_vars

----------------------------------------------------------------------------
(* Harness of the listing sweep: the repository is constructed over a base *)
(* directory that already holds files under their own names, and           *)
(* list_photos is called.                                                  *)

\* the files the base directory may hold: the keys are "b" (b.jpg, b.cr2,
\* b.xmp, b.live.mov) and "b.cr2" (a jpeg and a raw file made from b.cr2,
\* the sidecar b.cr2.xmp and its .json companion)
SweepPool ==
    {<<"b", "jpg">>, <<"b", "cr2">>, <<"b", "xmp">>, <<"b", "live", "mov">>,
     <<"b", "cr2", "jpg">>, <<"b", "cr2", "dng">>, <<"b", "cr2", "xmp">>,
     <<"b", "cr2", "xmp", "json">>}

SweepInit ==
    /\ \E S \in SUBSET SweepPool : files = [n \in S |-> n]
    /\ index = <<>>
    /\ last = [op |-> "none"]
    /\ steps = 0
    /\ nfresh = 0
    /\ kname = <<"shot">>
    /\ kout = <<>>

SweepNext == ListPhotos

SpecSweep == SweepInit /\ [][SweepNext]_vars

----------------------------------------------------------------------------
(* Harness of letter case: a file name written in lower case is drawn, and *)
(* its key and its role are computed for the name and for a spelling of it *)
(* that differs in the letter case of extension parts only.                *)

\* str.upper() on one segment (the lower-case segments of the harness)
Upper(s) ==
    CASE s = "cr2" -> "CR2"
      [] s = "dng" -> "DNG"
      [] s = "jpg" -> "JPG"
      [] s = "mov" -> "MOV"
      [] s = "xmp" -> "XMP"
      [] s = "live" -> "LIVE"
      [] OTHER -> s

\* the longest run of extension parts of a name of the harness
MaxCaseSegs == 2

CaseBases == {"b", "shot"}
CaseSegs == {"cr2", "dng", "jpg", "mov", "xmp", "live"}

\* the spellings of name with some of its extension parts in upper case
CaseVariants(name) ==
    {[i \in 1..Len(name) |-> IF i \in U THEN Upper(name[i]) ELSE name[i]] :
        U \in SUBSET (2..Len(name))}

\* the role _find_related_files gives a file of the seed's group, "" for a
\* file it passes over (line 88)
ScannedRole(name) == IF IsSupported(name) THEN ScanRole(name) ELSE ""

CaseInit ==
    /\ \E base \in CaseBases, n \in 1..MaxCaseSegs :
       \E t \in [1..n -> CaseSegs] : kname = <<base>> \o t
    /\ kout = NoKey
    /\ files = <<>> /\ index = <<>> /\ last = [op |-> "none"] /\ steps = 0 /\ nfresh = 0

\* the key and the role of the name and of one of its spellings
CaseCompute ==
    /\ last.op = "none"
    /\ \E v \in CaseVariants(kname) :
          last' = [op |-> "case", name |-> kname, variant |-> v,
                   key |-> GetFileGroupKey(kname), vkey |-> GetFileGroupKey(v),
                   role |-> ScannedRole(kname), vrole |-> ScannedRole(v)]
    /\ UNCHANGED <<files, index, steps, nfresh, kname, kout>>

CaseNext == CaseCompute

SpecCase == CaseInit /\ [][CaseNext]_vars

----------------------------------------------------------------------------
(* Harness of managed naming: save and rename_photo on groups that hold a  *)
(* master together with the sidecar the Group Scanner types as its own.    *)
(* With the keys _get_file_group_key computes, the sidecar "c.cr2.xmp" is  *)
(* in the group "c.cr2", whose masters are named c.cr2.<ext>.              *)

NamingSeeds ==
    {Path("src", <<"c", "cr2", "dng">>), Path("src", <<"d", "cr2", "cr2">>),
     Path("src", <<"e", "jpg", "jpeg">>)}

NamingNext ==
    \/ \E seed \in NamingSeeds, id \in SaveIds : Save(seed, id)
    \/ \E id \in SaveIds, newName \in NewNames : RenamePhoto(id, newName)

SpecNaming == Init /\ [][NamingNext]_vars

----------------------------------------------------------------------------
(* PhotoService.add_photo_tags (src/src/domain/services/photo_service.py)  *)
(* over the repository: the photo find_by_id returns is given the tags and *)
(* handed to save, with its file path inside the base directory.           *)

\* the tags of the Photo find_by_id builds: the constructor gets none
FoundTags == {}

\* add_photo_tags(id, tags).  failAt is the copy the operating system makes
\* fail in save (0: none); ret is "None", "ok" (the photo is returned) or
\* "IOError" (save raised).
AddPhotoTags(id, tags) ==
    /\ steps < MaxSteps
    /\ \E photo \in FindByIdResults(files, index, id) :
          IF photo = None
          THEN /\ last' = [op |-> "tags", id |-> id, found |-> None, given |-> tags,
                           failAt |-> 0, ret |-> "None", tags |-> {}, path |-> NoPath]
               /\ UNCHANGED <<files, index>>
          ELSE \E related \in SaveRelated(files, photo.path) :
               \E failAt \in 0..Len(related) :
                  LET out == CopyRelated(files, related, 1, <<>>, id, failAt) IN
                  /\ files' = out.files
                  /\ index' = SaveIndex(index, id, out)
                  /\ last' = [op |-> "tags", id |-> id, found |-> photo, given |-> tags,
                              failAt |-> failAt,
                              ret |-> IF out.err = "" THEN "ok" ELSE "IOError",
                              tags |-> FoundTags \cup tags,
                              path |-> IF out.err = "" /\ out.saved # <<>>
                                       THEN GetPrimaryFilePath(out.saved) ELSE photo.path]
    /\ steps' = steps + 1
    /\ UNCHANGED <<nfresh, kname, kout>>

ServiceNext ==
    \/ \E seed \in Seeds, id \in SaveIds : Save(seed, id)
    \/ \E id \in SaveIds, newName \in NewNames : RenamePhoto(id, newName)
    \/ \E id \in SaveIds, tags \in SUBSET Tags : AddPhotoTags(id, tags)

SpecService == Init /\ [][ServiceNext]_vars

----------------------------------------------------------------------------
(* GPS conversion.  A Python float is held as an exact fraction in lowest  *)
(* terms, [num, den] with den > 0: the rounding of the binary floating     *)
(* point operations (below 1e-13 degrees for these magnitudes) is left out.*)

RECURSIVE Gcd(_, _)
Gcd(a, b) == IF b = 0 THEN a ELSE Gcd(b, a % b)

Abs(n) == IF n < 0 THEN 0 - n ELSE n

\* the fraction n / d in lowest terms (d > 0)
Frac(n, d) ==
    LET g == Gcd(Abs(n), d) IN
    IF g = 0 THEN [num |-> 0, den |-> 1] ELSE [num |-> n \div g, den |-> d \div g]

\* x + y
FracAdd(x, y) == Frac(x.num * y.den + y.num * x.den, x.den * y.den)

\* -x
FracNeg(x) == [num |-> 0 - x.num, den |-> x.den]

\* a conversion that negates on the northern and eastern references
ConvertGpsFlipped(coordinates, ref) ==
    LET degrees == coordinates[1]
        minutes == coordinates[2]
        seconds == coordinates[3]
        decimal_degrees ==
            FracAdd(FracAdd(Frac(degrees, 1), Frac(minutes, 60)), Frac(seconds, 3600))
    IN  IF ref \in {"N", "E"} THEN FracNeg(decimal_degrees) ELSE decimal_degrees

\* _convert_gps_coordinates on a triple of numbers
ConvertGpsCoordinates(coordinates, ref) ==
    LET degrees == coordinates[1]
        minutes == coordinates[2]
        seconds == coordinates[3]
        decimal_degrees ==
            FracAdd(FracAdd(Frac(degrees, 1), Frac(minutes, 60)), Frac(seconds, 3600))
    IN  IF ref \in {"S", "W"} THEN FracNeg(decimal_degrees) ELSE decimal_degrees

\* the triples and references of the harness: whole degrees, minutes and
\* seconds as the EXIF tags gps_latitude / gps_longitude hold them
GpsDegrees == {0, 38, 90, 179}
GpsMinutes == 0..59
GpsSeconds == 0..59
GpsRefs == {"N", "S", "E", "W"}

GpsInit ==
    /\ \E d \in GpsDegrees, m \in GpsMinutes, sec \in GpsSeconds, ref \in GpsRefs :
          last = [op |-> "exif", coordinates |-> <<d, m, sec>>, ref |-> ref]
    /\ files = <<>> /\ index = <<>> /\ steps = 0 /\ nfresh = 0
    /\ kname = <<"shot">> /\ kout = <<>>

\* the call made by _extract_photo_metadata (lines 166-173)
GpsConvert ==
    /\ last.op = "exif"
    /\ last' = [op |-> "gps", coordinates |-> last.coordinates, ref |-> last.ref,
                ret |-> ConvertGpsCoordinates(last.coordinates, last.ref)]
    /\ UNCHANGED <<files, index, steps, nfresh, kname, kout>>

GpsNext == GpsConvert

SpecGps == GpsInit /\ [][GpsNext]_vars

----------------------------------------------------------------------------
(* The claims.                                                             *)

\* C1: for every base name b, raw extension r and jpeg extension j, the
\* names b+r, b+j, b+r+'.xmp', b+j+'.xmp' and b+'.live.mov' all have the key
\* b; in particular 'shot.dng.xmp' has the key 'shot'.
C1_SameKey ==
    (kout # NoKey /\ ClaimedForm(kname)) => kout = <<kname[1]>>

PrimaryRoles == {"raw", "jpeg", "live"}

\* C2: in every reachable state, every index record that exists holds at
\* least one of the roles raw-master, jpeg-master, motion-companion: a
\* sidecar-only or primary-less group is never persisted.
C2_RecordHasPrimary ==
    \A id \in DOMAIN index : RolesOf(index[id]) \cap PrimaryRoles # {}

\* C3: whenever save returns without raising, a record for the id exists
\* and holds every copied role, the returned path is the record's primary
\* path, lies in the base directory and exists, and every result find_by_id
\* can give right after it is a photo with that primary path.
C3_SaveThenFind ==
    (last.op = "save" /\ last.ret = "ok") =>
        /\ last.id \in DOMAIN index
        /\ RolesOf(last.copied) \subseteq RolesOf(index[last.id])
        /\ last.path = GetPrimaryFilePath(index[last.id])
        /\ last.path.dir = "base"
        /\ Exists(files, last.path)
        /\ \A photo \in FindByIdResults(files, index, last.id) :
              photo # None /\ photo.path = last.path

\* the step is a call of rename_photo that failed on a role after at least
\* one role was renamed, and every compensating rename succeeded
RenameRolledBack ==
    /\ steps' = steps + 1
    /\ last'.op = "rename"
    /\ last'.role # ""
    /\ last'.renamed # <<>>
    /\ last'.stuck = {}

\* C4: if rename fails on the k-th role after k-1 roles were renamed and
\* the compensating renames succeed, then on return every one of the k-1
\* files is back at its original path with its content, none of them is
\* left at its new path, and the index record is the record of before.
C4_RenameRollback ==
    [][RenameRolledBack =>
         /\ index' = index
         /\ last'.had = index[last'.id]
         /\ \A j \in 1..Len(last'.renamed) :
               LET new == last'.renamed[j].path
                   old == PathOf(last'.had, last'.renamed[j].role)
               IN  /\ Exists(files, old) /\ Exists(files', old)
                   /\ files'[old.name] = files[old.name]
                   /\ new \notin PathsOf(last'.had) => ~Exists(files', new)
         /\ \A q \in PathsOf(last'.had) :
               Exists(files, q) => Exists(files', q) /\ files'[q.name] = files[q.name]]_vars

\* C4 witness: a rename of a group of three files failed on its second file
\* and the first one was moved back
C4_Witness ==
    /\ last.op = "rename" /\ last.role # "" /\ last.stuck = {}
    /\ Len(last.had) = 3 /\ Len(last.renamed) = 1
    /\ last.had[2].role = last.role
    /\ \A q \in PathsOf(last.had) : Exists(files, q)

\* the item of role r in a sequence of items
ItemOf(items, r) == items[CHOOSE i \in 1..Len(items) : items[i].role = r]

\* C5: rename overwrites the index record only when the rename of every
\* role of the existing record succeeded; the record then has the same
\* roles as before, each at its new path, every new path exists and no old
\* path (that is not also a new one) exists.  A record with a file missing
\* on disk is therefore not overwritten.
C5_RenameAllOrNothing ==
    (last.op = "rename" /\ last.had # <<>>) =>
        IF RolesOf(last.renamed) = RolesOf(last.had) /\ last.role = ""
        THEN /\ last.id \in DOMAIN index
             /\ RolesOf(index[last.id]) = RolesOf(last.had)
             /\ \A r \in RolesOf(last.had) :
                   /\ PathOf(index[last.id], r) = NewPath(ItemOf(last.had, r), last.newName)
                   /\ Exists(files, PathOf(index[last.id], r))
             /\ \A q \in PathsOf(last.had) \ PathsOf(index[last.id]) : ~Exists(files, q)
        ELSE last.id \in DOMAIN index /\ index[last.id] = last.had

\* the last call was a delete of an indexed group of which a referenced file
\* was already missing, and no removal failed in the operating system
DeletedWithMissingFile ==
    /\ last.op = "delete"
    /\ last.had # <<>>
    /\ last.missing # {}
    /\ last.failed = {} /\ ~last.failMeta

\* every file the deleted record referenced is gone, and so is the record
GroupGone ==
    /\ \A q \in PathsOf(last.had) : ~Exists(files, q)
    /\ last.id \notin DOMAIN index

\* C6 (as stated): delete on an indexed group with one referenced file
\* already missing removes the remaining files and the record, and
\* returns false.
C6_MissingFileReportsFailure ==
    DeletedWithMissingFile => GroupGone /\ last.ret = FALSE

\* C6 (amended): delete on an indexed group with one referenced file already
\* missing removes the remaining files and the record, and returns true
\* when none of the removals it attempts fails: the missing file is skipped.
C6_MissingFileIsSkipped ==
    DeletedWithMissingFile => GroupGone /\ last.ret = TRUE

\* C6 witness: such a delete found one file missing and removed another
C6_Witness ==
    /\ DeletedWithMissingFile
    /\ Cardinality(last.missing) = 1
    /\ PathsOf(last.had) \ last.missing # {}
    /\ last.ret = TRUE

\* C7: when the removal of a referenced file fails during delete, delete
\* does not raise and goes on: every other referenced file is removed, the
\* record is removed unless its own removal fails, and the flag returned is
\* true exactly when no file removal and not the record removal failed.
C7_DeleteAggregates ==
    (last.op = "delete" /\ last.had # <<>>) =>
        /\ last.ret \in BOOLEAN
        /\ \A q \in PathsOf(last.had) : Exists(files, q) <=> q \in last.failed
        /\ last.id \in DOMAIN index <=> last.failMeta
        /\ last.ret <=> (last.failed = {} /\ ~last.failMeta)

\* C7 witness: the removal of one file failed, another file that was there
\* was removed all the same, and so was the record
C7_Witness ==
    /\ last.op = "delete"
    /\ last.failed # {}
    /\ PathsOf(last.had) \ (last.failed \cup last.missing) # {}
    /\ last.id \notin DOMAIN index
    /\ last.ret = FALSE

\* the step is a call of delete or rename_photo for an id without record
CallWithoutRecord ==
    /\ steps' = steps + 1
    /\ last'.op \in {"delete", "rename"}
    /\ last'.id \notin DOMAIN index

\* C8: delete and rename for an id that has no index record return failure
\* (False / None) and leave every file and every record as they were.
C8_NoRecordNoEffect ==
    [][CallWithoutRecord =>
         /\ files' = files
         /\ index' = index
         /\ last'.op = "delete" => last'.ret = FALSE
         /\ last'.op = "rename" => last'.photo = None]_vars

\* C8 witness: delete was called for an id without record while files
\* carrying the id in their names lie in the base directory
C8_Witness ==
    /\ last.op = "delete"
    /\ last.had = <<>>
    /\ last.id \notin DOMAIN index
    /\ \E f \in DOMAIN files : NameHasId(f, last.id)
    /\ last.ret = FALSE

\* the items of related before item n whose file exists
ExistingBefore(fs, related, n) ==
    SelectSeq(SubSeq(related, 1, n - 1), LAMBDA it : Exists(fs, it.path))

\* C9: when the copy of a file fails, save raises an IOError naming the
\* role of that file, has copied exactly the files before it (they stay in
\* the base directory), copies nothing after it, and neither creates nor
\* changes the index record.
C9_SaveFailsFast ==
    [][(steps' = steps + 1 /\ last'.op = "save" /\ last'.at # 0) =>
         LET before == ExistingBefore(files, last'.related, last'.at) IN
         /\ last'.ret = "IOError"
         /\ last'.role = last'.related[last'.at].role
         /\ [i \in 1..Len(last'.copied) |-> last'.copied[i].role]
              = [i \in 1..Len(before) |-> before[i].role]
         /\ DOMAIN files' = DOMAIN files \cup {c.name : c \in PathsOf(last'.copied)}
         /\ \A i \in 1..Len(before) :
               files'[last'.copied[i].path.name] = Content(files, before[i].path)
         /\ \A n \in DOMAIN files \ {c.name : c \in PathsOf(last'.copied)} :
               files'[n] = files[n]
         /\ index' = index]_vars

\* C9 witness: a save failed on its third file; the two copies made before
\* are in the base directory and there is no record
C9_Witness ==
    /\ last.op = "save" /\ last.ret = "IOError" /\ last.at = 3
    /\ Len(last.copied) = 2
    /\ \A c \in PathsOf(last.copied) : Exists(files, c)
    /\ last.id \notin DOMAIN index

\* the ids of the records the last list_photos created
NewIds == {ph.id : ph \in last.new}

\* every master file of the base directory was referenced by a record
\* before the last list_photos ran
AllIndexedBefore ==
    \A f \in DOMAIN files :
        (IsSupported(f) /\ Lower(SplitExt(f)) \notin Range(SIDECAR_FORMATS)) =>
            \E id \in DOMAIN index \ NewIds : Path("base", f) \in PathsOf(index[id])

\* C10: a list_photos that runs when every group of the base directory is
\* already indexed creates no record and returns each group once.
C10_ListPromotesOnce ==
    (last.op = "list" /\ AllIndexedBefore) =>
        /\ last.new = {}
        /\ \A p, q \in last.known \cup last.new : p.path = q.path => p = q

\* C11: when list_photos is run twice with no other call in between, the
\* set of primary paths the second run returns is the set the first run
\* returned.
C11_ListTwiceSamePaths ==
    (last.op = "list" /\ last.prev # <<>>) => ListedPaths(last) = last.prev[1]

\* C11 witness: the second of two consecutive runs returned a photo from a
\* record and swept up a group as well
C11_Witness ==
    /\ last.op = "list" /\ last.prev # <<>>
    /\ last.known # {} /\ last.new # {}
    /\ \E ph \in last.known : ph.id \in FreshIds

\* C12: after delete(id) has returned success, no file of the group remains
\* and find_by_id(id) returns not found, whatever calls came before the
\* delete (several saves with the same id included).
C12_DeletedIsTerminal ==
    (last.op = "delete" /\ last.ret = TRUE) =>
        /\ \A q \in PathsOf(last.had) : ~Exists(files, q)
        /\ last.id \notin DOMAIN index
        /\ FindByIdResults(files, index, last.id) = {None}

\* the ids whose record the step creates or changes, and those whose record
\* it removes
RecordsWritten == {id \in DOMAIN index' : id \notin DOMAIN index \/ index'[id] # index[id]}
RecordsRemoved == DOMAIN index \ DOMAIN index'

\* C13: a record is created or overwritten only by save, by rename_photo
\* and by list_photos (which only creates records, for the groups it
\* discovers), and is removed only by delete; find_by_id and find_by_tag
\* change no record and no file, whether or not the id is indexed.
C13_OnlyWritersWrite ==
    [][/\ RecordsWritten # {} => last'.op \in {"save", "rename", "list"}
       /\ (RecordsWritten # {} /\ last'.op \in {"save", "rename"}) =>
              RecordsWritten = {last'.id}
       /\ (RecordsWritten # {} /\ last'.op = "list") =>
              RecordsWritten = {ph.id : ph \in last'.new} \ DOMAIN index
       /\ RecordsRemoved # {} => last'.op = "delete" /\ RecordsRemoved = {last'.id}
       /\ (steps' = steps + 1 /\ last'.op \in {"find", "tag"}) =>
              files' = files /\ index' = index]_vars

\* C13 witness: find_by_id returned a photo for an id without record, from
\* the files carrying the id, and there is still no record for the id
C13_Witness ==
    /\ last.op = "find"
    /\ last.photo # None
    /\ last.id \notin DOMAIN index
    /\ \E f \in DOMAIN files : NameHasId(f, last.id)

\* the order in which the sources are preferred
ChainOrder == <<"raw_sidecar", "jpeg_sidecar", "sidecar", "raw", "jpeg">>

\* what the source of role r provides when it is resolved alone
Alone(fs, items, r) == ExtractPhotoMetadata(fs, <<ItemOf(items, r)>>)

\* the positions in ChainOrder of the sources of the group that provide k
Providers(fs, items, k) ==
    {i \in 1..Len(ChainOrder) :
        HasRole(items, ChainOrder[i]) /\ k \in DOMAIN Alone(fs, items, ChainOrder[i])}

\* C14: for each of camera model, latitude and longitude, the resolved value
\* is the value of the first source, in the order raw-sidecar, jpeg-sidecar,
\* generic sidecar, raw master, jpeg master, that provides the field; a
\* later source never replaces it.
C14_FirstSourceWins ==
    last.op = "extract" =>
        \A k \in {"camera_model", "latitude", "longitude"} :
            LET ps == Providers(files, last.file_paths, k) IN
            IF ps = {} THEN k \notin DOMAIN last.ret
            ELSE LET first == CHOOSE i \in ps : \A j \in ps : i <= j IN
                 /\ k \in DOMAIN last.ret
                 /\ last.ret[k] = Alone(files, last.file_paths, ChainOrder[first])[k]

\* a source that cannot be read or parsed: a sidecar that is no XML, a
\* master that cannot be opened, a master whose GPS tags lack the reference
FailingSource(fs, item) ==
    \/ item.role \in Range(SidecarTypes) /\ Content(fs, item.path) = BadXmp
    \/ /\ item.role \in {"raw", "jpeg"}
       /\ \/ Content(fs, item.path) = Unreadable
          \/ Content(fs, item.path).gps = "noref"

\* items without its i-th item
RemoveAt(items, i) == SubSeq(items, 1, i - 1) \o SubSeq(items, i + 1, Len(items))

\* C15: a source that cannot be read or parsed contributes nothing: the
\* group resolves to what it resolves to with that source removed.
C15_FailingSourceIgnored ==
    last.op = "extract" =>
        \A i \in 1..Len(last.file_paths) :
            FailingSource(files, last.file_paths[i]) =>
                last.ret = ExtractPhotoMetadata(files, RemoveAt(last.file_paths, i))

\* C16: after put(id, m) with a non-empty RoleMap m, get(id) returns exactly
\* m, with no role of an earlier record of the id; get of another id returns
\* what it returned before the put; get of an id without record returns the
\* empty result.
C16_PutThenGet ==
    last.op = "get" =>
        /\ (last.put # <<>> /\ last.put[1].id = last.id) => last.ret = last.put[1].items
        /\ (last.put # <<>> /\ last.put[1].id # last.id) =>
              last.ret = LoadRelatedFilesMetadata(last.put[1].before, last.id)
        /\ last.id \notin DOMAIN index => last.ret = <<>>

\* C17: the primary path of a RoleMap is the path of the jpeg master when
\* there is one, else that of the raw master when there is one, else that
\* of the motion companion; the sidecar roles have no influence on it and
\* it is empty only when none of the three roles is there.
C17_PrimaryPreference ==
    last.op = "extract" =>
        LET m == last.file_paths
            masters == SelectSeq(m, LAMBDA it : it.role \in PrimaryRoles)
        IN  /\ "jpeg" \in RolesOf(m) => last.primary = PathOf(m, "jpeg")
            /\ ("jpeg" \notin RolesOf(m) /\ "raw" \in RolesOf(m)) =>
                  last.primary = PathOf(m, "raw")
            /\ ({"jpeg", "raw"} \cap RolesOf(m) = {} /\ "live" \in RolesOf(m)) =>
                  last.primary = PathOf(m, "live")
            /\ last.primary = NoPath <=> RolesOf(m) \cap PrimaryRoles = {}
            /\ last.primary \in PathsOf(masters) \cup {NoPath}

\* C17 witness: a group with a raw master, a motion companion and sidecars
\* but no jpeg master has the raw master as its primary file
C17_Witness ==
    /\ last.op = "extract"
    /\ RolesOf(last.file_paths) = {"raw_sidecar", "sidecar", "raw", "live"}
    /\ last.primary = Path("base", MetaName("raw"))

\* the base directory holds a raw, jpeg or motion file whose name carries id
HoldsPrimaryOf(fs, id) ==
    \E f \in DOMAIN fs :
        /\ NameHasId(f, id)
        /\ Lower(SplitExt(f)) \in
              Range(RAW_FORMATS) \cup Range(JPEG_FORMATS) \cup Range(LIVE_PHOTO_FORMATS)

\* C18: find_by_id for an id without record returns the photo whenever the
\* base directory holds a raw, jpeg or motion file whose name contains the
\* id, in whatever order the directory is listed.
C18_SweepFindsPrimary ==
    (/\ last.op = "find"
     /\ LoadRelatedFilesMetadata(index, last.id) = <<>>
     /\ HoldsPrimaryOf(files, last.id)) => last.photo # None

\* the step is a call of save, rename_photo or delete
CallForId == steps' = steps + 1 /\ last'.op \in {"save", "rename", "delete"}

\* C19: a call of save, rename_photo or delete for an id A changes the
\* record of no other id B and neither removes, moves nor overwrites a file
\* that the record of B references.
C19_GroupsIsolated ==
    [][CallForId =>
         \A B \in DOMAIN index \ {last'.id} :
             /\ B \in DOMAIN index' /\ index'[B] = index[B]
             /\ \A q \in PathsOf(LoadRelatedFilesMetadata(index, B)) :
                   Exists(files, q) =>
                       Exists(files', q) /\ files'[q.name] = files[q.name]]_vars

\* the last call was a save that returned normally and the id has a record
\* with a primary file
StoredBySave ==
    /\ last.op = "save" /\ last.ret = "ok"
    /\ last.id \in DOMAIN index
    /\ GetPrimaryFilePath(LoadRelatedFilesMetadata(index, last.id)) # NoPath

\* C20: for a group stored by a successful save, the Group Scanner run
\* from the managed primary file yields the roles and paths of the record,
\* and find_by_id returns the same with the record as without it.
C20_RecordIsFaithfulCache ==
    StoredBySave =>
        LET rec == LoadRelatedFilesMetadata(index, last.id) IN
        /\ \A r \in FindRelatedFiles(files, GetPrimaryFilePath(rec)) : Range(r) = Range(rec)
        /\ FindByIdResults(files, Without(index, {last.id}), last.id)
              = FindByIdResults(files, index, last.id)

\* the items of a RoleMap, whatever their order
Items(m) == Range(m)

\* C21: for every untracked group list_photos discovers, the RoleMap it
\* persists is the RoleMap the Group Scanner returns from any raw, jpeg or
\* motion file of the group as seed: both give every file the same role.
C21_SweepEqualsScan ==
    last.op = "list" =>
        \A ph \in last.new :
            LET rec == LoadRelatedFilesMetadata(index, ph.id) IN
            \A i \in 1..Len(rec) :
                rec[i].role \in PrimaryRoles =>
                    Items(rec) \in {Items(r) : r \in FindRelatedFiles(files, rec[i].path)}

\* every segment after the first is an extension part: a primary or sidecar
\* extension alone, the 'live' marker before a motion extension, or a raw or
\* jpeg extension before the sidecar extension 'xmp'
ExtensionParts(name) ==
    \/ Len(name) = 2 /\ name[2] # "live"
    \/ Len(name) = 3 /\ name[2] = "live" /\ name[3] = "mov"
    \/ Len(name) = 3 /\ (IsRawExt(name[2]) \/ IsJpegExt(name[2])) /\ name[3] = "xmp"

\* C22: changing only the letter case of the extension parts of a file name
\* changes neither its group key nor the role the Group Scanner gives it;
\* 'b.CR2.XMP' has the key and the raw-sidecar role of 'b.cr2.xmp'.
C22_CaseInsensitive ==
    (last.op = "case" /\ ExtensionParts(last.name)) =>
        last.vkey = last.key /\ last.vrole = last.role

\* the call just made was a save or a rename_photo that succeeded, and the
\* id has a record
Renamed == last.op = "rename" /\ last.had # <<>> /\ last.role = ""
SavedOrRenamed ==
    /\ (last.op = "save" /\ last.ret = "ok") \/ Renamed
    /\ last.id \in DOMAIN index

\* the sidecar of the role is named after the master of the role
Attached(rec, master, sidecar) ==
    (HasRole(rec, master) /\ HasRole(rec, sidecar)) =>
        PathOf(rec, sidecar).name = PathOf(rec, master).name \o <<"xmp">>

\* C23: after a successful save and after a successful rename_photo, the
\* raw sidecar of the group is named as its raw master followed by '.xmp',
\* the jpeg sidecar as its jpeg master followed by '.xmp' ('.jpeg' as well
\* as '.jpg'), and no two roles of the group have the same path.
C23_SidecarNamedAfterMaster ==
    SavedOrRenamed =>
        LET rec == LoadRelatedFilesMetadata(index, last.id) IN
        /\ Attached(rec, "raw", "raw_sidecar")
        /\ Attached(rec, "jpeg", "jpeg_sidecar")
        /\ \A i, j \in 1..Len(rec) : i # j => rec[i].path # rec[j].path

\* the photos a call of list_photos returned
Listed == last.known \cup last.new

\* a raw, jpeg or motion file
IsMaster(f) ==
    Lower(SplitExt(f)) \in
        Range(RAW_FORMATS) \cup Range(JPEG_FORMATS) \cup Range(LIVE_PHOTO_FORMATS)

\* a photo of the result stands for the file: its record references the
\* file, or its path is in the file's group
Represented(f) ==
    \E ph \in Listed :
        \/ Path("base", f) \in PathsOf(LoadRelatedFilesMetadata(index, ph.id))
        \/ GetFileGroupKey(ph.path.name) = GetFileGroupKey(f)

\* C24: list_photos returns a photo for every index record whose primary
\* file exists and for every group of the base directory that holds a raw,
\* jpeg or motion file and that no record covers; a file that is alone a
\* sidecar gives no photo.
C24_ListComplete ==
    last.op = "list" =>
        /\ \A id \in DOMAIN index :
              Exists(files, GetPrimaryFilePath(LoadRelatedFilesMetadata(index, id)))
                  => \E ph \in Listed : ph.id = id
        /\ \A f \in DOMAIN files : IsMaster(f) => Represented(f)
        /\ \A ph \in Listed : Exists(files, ph.path) /\ IsMaster(ph.path.name)

\* the step is a rename_photo that failed and whose compensation failed for
\* some of the files already renamed
RollbackStuck ==
    /\ steps' = steps + 1
    /\ last'.op = "rename" /\ last'.role # "" /\ last'.stuck # {}

\* C25: when a compensating rename fails during the rollback of a failed
\* rename_photo, the rollback goes on with the other files already renamed,
\* the file whose reversal failed stays at its new path, the index is left
\* as it was, and that file is reported to the caller as a further failure.
C25_StuckFileReported ==
    [][RollbackStuck =>
         /\ index' = index
         /\ \A j \in 1..Len(last'.renamed) :
               LET it == last'.renamed[j] IN
               IF it.role \in last'.stuck
               THEN Exists(files', it.path) /\ it.role \in last'.reported
               ELSE Exists(files', PathOf(last'.had, it.role))]_vars

\* C26: add_photo_tags for an id that find_by_id finds returns the photo
\* with the union of its tags and the given tags and does not raise (the
\* operating system failing no copy); it returns None only when find_by_id
\* finds no photo.
C26_TagsAddedWithoutRaising ==
    last.op = "tags" =>
        /\ (last.found # None /\ last.failAt = 0) =>
              last.ret = "ok" /\ last.tags = FoundTags \cup last.given
        /\ last.ret = "None" => last.found = None

\* 3600 * degrees + 60 * minutes + seconds
ArcSeconds(c) == 3600 * c[1] + 60 * c[2] + c[3]

\* the result is the fraction arcsec / 3600 (both in lowest terms)
IsArcSeconds(x, arcsec) == x = Frac(arcsec, 3600)

\* the result is plus or minus degrees + minutes/60 + seconds/3600, minus
\* exactly when the reference is 'S' or 'W'
SignedMagnitude ==
    IF last.ref \in {"S", "W"}
    THEN IsArcSeconds(last.ret, 0 - ArcSeconds(last.coordinates))
    ELSE IsArcSeconds(last.ret, ArcSeconds(last.coordinates))

\* C27 as stated: the result is the signed magnitude, and (38, 41, 54)
\* gives -38.731666... (139434 arc-seconds) with 'S' and +38.731666... with
\* 'N'.
C27_GpsAsStated ==
    last.op = "gps" =>
        /\ SignedMagnitude
        /\ last.coordinates = <<38, 41, 54>> =>
              IsArcSeconds(last.ret, IF last.ref \in {"S", "W"} THEN 0 - 139434 ELSE 139434)

\* C27, amended: the result has the magnitude degrees + minutes/60 +
\* seconds/3600 (3600 times it is 3600*degrees + 60*minutes + seconds) and
\* is that magnitude negated exactly when the reference is 'S' or 'W';
\* (38, 41, 54) gives -38.698333... (139314 arc-seconds) with 'S' and
\* +38.698333... with 'N'.
C27_GpsConversion ==
    last.op = "gps" =>
        /\ SignedMagnitude
        /\ (last.ref \in {"S", "W"} /\ ArcSeconds(last.coordinates) > 0) => last.ret.num < 0
        /\ last.ref \notin {"S", "W"} => last.ret.num >= 0
        /\ last.coordinates = <<38, 41, 54>> =>
              IsArcSeconds(last.ret, IF last.ref \in {"S", "W"} THEN 0 - 139314 ELSE 139314)

C27_Witness ==
    /\ last.op = "gps" /\ last.coordinates = <<38, 41, 54>> /\ last.ref = "S"
    /\ last.ret = [num |-> 0 - 23219, den |-> 600]

====
